---- MODULE Spec2Model ----
(***************************************************************************)
(* Model of mixite's grid layout strategies (layout.py) and of the        *)
(* GridControlBuilder that assembles a grid from them (builder.py).       *)
(*                                                                         *)
(* The strategy layer is a set of pure methods; the hexagon enumeration   *)
(* is modelled loop iteration by loop iteration, with its locals as       *)
(* variables.  The builder is modelled statement by statement.            *)
(***************************************************************************)
EXTENDS Integers, Sequences, FiniteSets, TLC

\* ---------------------------------------------------------------- bounds
\* Sizes handed to the strategies directly: -NegSizes .. MaxSize.
MaxSize == 5
NegSizes == 2
\* Sizes used when two calls of fetch_grid_coords are compared.
MaxRestartSize == 3
\* Sizes handed to the builder: 0 .. MaxBuildSize.
MaxBuildSize == 3

Sizes == (0 - NegSizes)..MaxSize
RestartSizes == 1..MaxRestartSize
BuildSizes == 0..MaxBuildSize
Radii == {1}

\* ------------------------------------------------------------ vocabulary
RECTANGULAR == "RECTANGULAR"
TRIANGULAR == "TRIANGULAR"
TRAPEZOID == "TRAPEZOID"
HEXAGONAL == "HEXAGONAL"
Shapes == {RECTANGULAR, TRIANGULAR, TRAPEZOID, HEXAGONAL}

FLAT_TOP == "FLAT_TOP"
POINTY_TOP == "POINTY_TOP"
Orientations == {FLAT_TOP, POINTY_TOP}

None == [none |-> TRUE]

\* ------------------------------------------------------ python built-ins
Abs(n) == IF n < 0 THEN 0 - n ELSE n
Max(a, b) == IF a >= b THEN a ELSE b

\* floor(n / 2.0): the size is a small integer, so the float division is exact.
FloorHalf(n) == n \div 2

\* floor(n / 4.0)
FloorQuarter(n) == n \div 4

\* round(n / 4.0): Python 3 rounds an exact half to the even neighbour.
RoundQuarter(n) ==
    LET q == n \div 4
        rem == n % 4
    IN  IF rem < 2 THEN q
        ELSE IF rem > 2 THEN q + 1
        ELSE IF q % 2 = 0 THEN q ELSE q + 1

\* range(lo, hi) as a sequence; empty when hi <= lo.
Range(lo, hi) == [i \in 1..(hi - lo) |-> lo + i - 1]

\* ------------------------------------------------------ coord.py (absent)
CubeCoordinate(x, z) == [gridX |-> x, gridZ |-> z]

offset_coords_to_cube_x(x, y, orientation) ==
    IF orientation = FLAT_TOP THEN x ELSE x - FloorHalf(y)

offset_coords_to_cube_z(x, y, orientation) ==
    IF orientation = FLAT_TOP THEN y - FloorHalf(x) ELSE y

\* ------------------------------------------------------------ check_size
\* Each operator is TRUE when check_size returns None and FALSE when it
\* raises GridLayoutException.
RectangleCheckSize(width, height) == width > 0 /\ height > 0

TriangleCheckSize(width, height) == 0 < width /\ width = height /\ height > 0

TrapezoidCheckSize(width, height) == width > 0 /\ height > 0

\* Variant: the parity test is left out.
HexagonCheckSize_NoParity(width, height) ==
    /\ width > 0 /\ height > 0
    /\ width = height

HexagonCheckSize(width, height) ==
    /\ width > 0 /\ height > 0
    /\ width = height
    /\ Abs(height % 2) = 1

check_size(shape, width, height) ==
    CASE shape = RECTANGULAR -> RectangleCheckSize(width, height)
      [] shape = TRIANGULAR -> TriangleCheckSize(width, height)
      [] shape = TRAPEZOID -> TrapezoidCheckSize(width, height)
      [] shape = HEXAGONAL -> HexagonCheckSize(width, height)

\* ----------------------------------------- fetch_grid_coords, plain loops
RECURSIVE RectangleRow(_, _, _, _)
RectangleRow(x, y, width, orientation) ==
    IF x >= width THEN <<>>
    ELSE <<CubeCoordinate(offset_coords_to_cube_x(x, y, orientation),
                          offset_coords_to_cube_z(x, y, orientation))>>
         \o RectangleRow(x + 1, y, width, orientation)

RECURSIVE RectangleRows(_, _, _, _)
RectangleRows(y, width, height, orientation) ==
    IF y >= height THEN <<>>
    ELSE RectangleRow(0, y, width, orientation)
         \o RectangleRows(y + 1, width, height, orientation)

RectangleFetchGridCoords(width, height, orientation) ==
    RectangleRows(0, width, height, orientation)

RECURSIVE TriangleRow(_, _, _)
TriangleRow(x, z, end_x) ==
    IF x >= end_x THEN <<>>
    ELSE <<CubeCoordinate(x, z)>> \o TriangleRow(x + 1, z, end_x)

\* Variant: every row is one column short.
RECURSIVE TriangleRows_OffByOne(_, _)
TriangleRows_OffByOne(z, height) ==
    IF z >= height THEN <<>>
    ELSE TriangleRow(0, z, height - z - 1) \o TriangleRows_OffByOne(z + 1, height)

RECURSIVE TriangleRows(_, _)
TriangleRows(z, height) ==
    IF z >= height THEN <<>>
    ELSE TriangleRow(0, z, height - z) \o TriangleRows(z + 1, height)

TriangleFetchGridCoords(width, height, orientation) == TriangleRows(0, height)

RECURSIVE TrapezoidRow(_, _, _)
TrapezoidRow(x, z, width) ==
    IF x >= width THEN <<>>
    ELSE <<CubeCoordinate(x, z)>> \o TrapezoidRow(x + 1, z, width)

RECURSIVE TrapezoidRows(_, _, _)
TrapezoidRows(z, width, height) ==
    IF z >= height THEN <<>>
    ELSE TrapezoidRow(0, z, width) \o TrapezoidRows(z + 1, width, height)

TrapezoidFetchGridCoords(width, height, orientation) ==
    TrapezoidRows(0, width, height)

\* ------------------------------------------------------------------ state
VARIABLES
    pc,          \* strategy layer: "idle", "hex_loop", "returned" or "raised"
    call,        \* the strategy call in progress or last made
    coords,      \* the list fetch_grid_coords builds and returns
    hex_radius,  \* locals of the hexagon enumeration, 0 outside a call
    start_x,
    min_x,
    y,
    prev,        \* a result of an earlier fetch_grid_coords the caller kept,
                 \* and whether that call has been made again since
    bpc,         \* builder: the statement of build_* about to run, or "idle"
    bshape,      \* which build_* method is running
    bresult,     \* how the last build_* ended: "none", "raised", "returned"
    grid_data,   \* local grid_data of build_*
    grid,        \* local grid of build_*: the HexagonGridImpl being filled
    stor,        \* heap of storage objects, by identity
    pending,     \* populate_storage: the coordinates its loop has yet to visit
    control,     \* the GridControl the last build_* returned
    kept,        \* a GridControl of an earlier build the caller still holds
    enumerated,  \* history: what fetch_grid_coords returned to this build
    inserts      \* history: keys passed to add_coord_with_data in this build

svars == <<pc, call, coords, hex_radius, start_x, min_x, y>>
bvars == <<bpc, bshape, bresult, grid_data, grid, stor, pending, control, kept,
           enumerated, inserts>>
vars == <<pc, call, coords, hex_radius, start_x, min_x, y, prev,
          bpc, bshape, bresult, grid_data, grid, stor, pending, control, kept,
          enumerated, inserts>>

NoCall == [op |-> "none", shape |-> "n/a", width |-> 0, height |-> 0,
           orientation |-> "n/a"]

StorIds == {1, 2}
EmptyStorage == [k \in {} |-> None]

Init ==
    /\ pc = "idle"
    /\ call = NoCall
    /\ coords = <<>>
    /\ hex_radius = 0
    /\ start_x = 0
    /\ min_x = 0
    /\ y = 0
    /\ prev = None
    /\ bpc = "idle"
    /\ bshape = "n/a"
    /\ bresult = "none"
    /\ grid_data = None
    /\ grid = None
    /\ stor = [id \in StorIds |-> EmptyStorage]
    /\ pending = <<>>
    /\ control = None
    /\ kept = None
    /\ enumerated = <<>>
    /\ inserts = <<>>

\* ------------------------------------------- the strategies, as operations
\* check_size(width, height) of the strategy for `shape`.
StrategyCheckSize(shape, width, height) ==
    /\ call' = [op |-> "check_size", shape |-> shape, width |-> width,
                height |-> height, orientation |-> "n/a"]
    /\ pc' = IF check_size(shape, width, height) THEN "returned" ELSE "raised"
    /\ coords' = <<>>
    /\ UNCHANGED <<hex_radius, start_x, min_x, y>>

\* Variant: coords is not a fresh list but the one returned last.
HexagonFetchBegin_KeepList(width, height, orientation) ==
    /\ coords' = coords
    /\ hex_radius' = FloorHalf(height)
    /\ start_x' = IF orientation = FLAT_TOP THEN FloorHalf(height)
                  ELSE RoundQuarter(height)
    /\ min_x' = start_x' - hex_radius'
    /\ y' = 0
    /\ pc' = "hex_loop"

\* HexagonGridLayoutStrategy.fetch_grid_coords up to its outer loop.
HexagonFetchBegin(width, height, orientation) ==
    /\ coords' = <<>>
    /\ hex_radius' = FloorHalf(height)
    /\ start_x' = IF orientation = FLAT_TOP THEN FloorHalf(height)
                  ELSE RoundQuarter(height)
    /\ min_x' = start_x' - hex_radius'
    /\ y' = 0
    /\ pc' = "hex_loop"

\* Variant: the flat-top shift of z is taken from the row, not the grid size.
HexagonRow_RowQuarter(sx, mx, radius, row, grid_size, orientation) ==
    LET dist_from_mid == Abs(radius - row)
        lo == Max(sx, mx)
        hi == Max(sx, mx) + (2 * radius) - dist_from_mid + 1
        z == IF orientation = FLAT_TOP THEN row - FloorQuarter(row)
             ELSE row
        xs == Range(lo, hi)
    IN  [i \in 1..Len(xs) |-> CubeCoordinate(xs[i], z)]

\* Variant: the end of the range lacks its + 1.
HexagonRow_ShortRow(sx, mx, radius, row, grid_size, orientation) ==
    LET dist_from_mid == Abs(radius - row)
        lo == Max(sx, mx)
        hi == Max(sx, mx) + (2 * radius) - dist_from_mid
        z == IF orientation = FLAT_TOP THEN row - FloorQuarter(grid_size)
             ELSE row
        xs == Range(lo, hi)
    IN  [i \in 1..Len(xs) |-> CubeCoordinate(xs[i], z)]

\* Variant: min_x follows the running start_x instead of being fixed.
HexagonRow_RunningMin(sx, mx, radius, row, grid_size, orientation) ==
    LET dist_from_mid == Abs(radius - row)
        lo == Max(sx, sx - radius)
        hi == Max(sx, sx - radius) + (2 * radius) - dist_from_mid + 1
        z == IF orientation = FLAT_TOP THEN row - FloorQuarter(grid_size)
             ELSE row
        xs == Range(lo, hi)
    IN  [i \in 1..Len(xs) |-> CubeCoordinate(xs[i], z)]

\* The coordinates one iteration of the outer loop appends, from the values
\* its locals have in that iteration.
HexagonRow(sx, mx, radius, row, grid_size, orientation) ==
    LET dist_from_mid == Abs(radius - row)
        lo == Max(sx, mx)
        hi == Max(sx, mx) + (2 * radius) - dist_from_mid + 1
        z == IF orientation = FLAT_TOP THEN row - FloorQuarter(grid_size)
             ELSE row
        xs == Range(lo, hi)
    IN  [i \in 1..Len(xs) |-> CubeCoordinate(xs[i], z)]

\* Variant: start_x is not decremented after the row.
HexagonFetchRow_NoDecrement ==
    /\ pc = "hex_loop"
    /\ y < call.height
    /\ coords' = coords \o HexagonRow(start_x, min_x, hex_radius, y,
                                       call.height, call.orientation)
    /\ start_x' = start_x
    /\ y' = y + 1
    /\ UNCHANGED <<pc, call, hex_radius, min_x, prev>>
    /\ UNCHANGED bvars

\* One iteration of the outer loop of the hexagon enumeration.
HexagonFetchRow ==
    /\ pc = "hex_loop"
    /\ y < call.height
    /\ coords' = coords \o HexagonRow(start_x, min_x, hex_radius, y,
                                       call.height, call.orientation)
    /\ start_x' = start_x - 1
    /\ y' = y + 1
    /\ UNCHANGED <<pc, call, hex_radius, min_x, prev>>
    /\ UNCHANGED bvars

\* The outer loop is exhausted: return coords; the frame's locals are gone.
HexagonFetchReturn ==
    /\ pc = "hex_loop"
    /\ y >= call.height
    /\ pc' = "returned"
    /\ hex_radius' = 0
    /\ start_x' = 0
    /\ min_x' = 0
    /\ y' = 0
    /\ UNCHANGED <<call, coords, prev>>
    /\ UNCHANGED bvars

\* fetch_grid_coords(width, height, orientation) of the strategy for `shape`.
StrategyFetch(shape, width, height, orientation) ==
    /\ call' = [op |-> "fetch", shape |-> shape, width |-> width,
                height |-> height, orientation |-> orientation]
    /\ IF shape = HEXAGONAL
       THEN HexagonFetchBegin(width, height, orientation)
       ELSE /\ coords' =
                CASE shape = RECTANGULAR ->
                         RectangleFetchGridCoords(width, height, orientation)
                  [] shape = TRIANGULAR ->
                         TriangleFetchGridCoords(width, height, orientation)
                  [] shape = TRAPEZOID ->
                         TrapezoidFetchGridCoords(width, height, orientation)
            /\ pc' = "returned"
            /\ UNCHANGED <<hex_radius, start_x, min_x, y>>

\* --------------------------------------- a caller of the strategies alone
ClientCheckSize(S) ==
    /\ pc # "hex_loop"
    /\ \E shape \in Shapes, width \in S, height \in S :
          StrategyCheckSize(shape, width, height)
    /\ UNCHANGED prev
    /\ UNCHANGED bvars

ClientFetch(S) ==
    /\ pc # "hex_loop"
    /\ \E shape \in Shapes, width \in S, height \in S, o \in Orientations :
          StrategyFetch(shape, width, height, o)
    /\ prev' = IF prev # None /\ prev.call = call'
               THEN [prev EXCEPT !.again = TRUE] ELSE prev
    /\ UNCHANGED bvars

\* The caller keeps the list a fetch_grid_coords call just returned.
Remember ==
    /\ pc = "returned"
    /\ call.op = "fetch"
    /\ prev' = [call |-> call, coords |-> coords, again |-> FALSE]
    /\ UNCHANGED svars
    /\ UNCHANGED bvars

LayoutNext ==
    \/ ClientCheckSize(Sizes)
    \/ ClientFetch(Sizes)
    \/ HexagonFetchRow
    \/ HexagonFetchReturn

SpecLayout == Init /\ [][LayoutNext]_vars

RestartNext ==
    \/ ClientCheckSize(RestartSizes)
    \/ ClientFetch(RestartSizes)
    \/ HexagonFetchRow
    \/ HexagonFetchReturn
    \/ Remember

SpecRestart == Init /\ [][RestartNext]_vars

\* ------------------------------- hex.py, grid.py, storage.py, calculator.py
\* (absent): the records the builder constructs and the storage insert.
GridData(orientation, radius, width, height) ==
    [orientation |-> orientation, radius |-> radius,
     width |-> width, height |-> height]

HexagonImpl(data, coord) == [grid_data |-> data, coord |-> coord]

\* A grid refers to its storage object by identity and owns its hexagon list.
HexagonGridImpl(data, storage) ==
    [grid_data |-> data, storage |-> storage, hexagons |-> <<>>]

HexagonGridCalculator(hex_grid) == [hex_grid |-> hex_grid]

\* storage.add_coord_with_data(coord, hexagon): associative insert.
add_coord_with_data(storage, coord, hexagon) ==
    [k \in (DOMAIN storage) \cup {coord} |->
        IF k = coord THEN hexagon ELSE storage[k]]

\* --------------------------------------------------------- builder.py
GridControl(hex_grid, calculator, data) ==
    [hex_grid |-> hex_grid, calculator |-> calculator, grid_data |-> data]

\* The storage object a DefaultHexagonDataStorage() call yields: one that no
\* grid the caller holds refers to.
FreshStorage ==
    IF kept # None /\ kept.control.hex_grid.storage = 1 THEN 2 ELSE 1

\* Entry of build_*: grid_data and the strategy are set up.  Storage objects
\* nothing refers to any more are dropped.
BuildBegin(shape, orientation, radius, width, height) ==
    /\ bpc = "idle"
    /\ bshape' = shape
    /\ grid_data' = GridData(orientation, radius, width, height)
    /\ bpc' = "check_size"
    /\ bresult' = "none"
    /\ grid' = None
    /\ control' = None
    /\ pending' = <<>>
    /\ enumerated' = <<>>
    /\ inserts' = <<>>
    /\ stor' = [id \in StorIds |->
                  IF kept # None /\ kept.control.hex_grid.storage = id
                  THEN stor[id] ELSE EmptyStorage]
    /\ pc' = "idle"
    /\ call' = NoCall
    /\ coords' = <<>>
    /\ UNCHANGED <<hex_radius, start_x, min_x, y, prev, kept>>

build_rectangle ==
    \E o \in Orientations, r \in Radii, w \in BuildSizes, h \in BuildSizes :
        BuildBegin(RECTANGULAR, o, r, w, h)

build_hexagon ==
    \E o \in Orientations, r \in Radii, w \in BuildSizes, h \in BuildSizes :
        BuildBegin(HEXAGONAL, o, r, w, h)

build_triangle ==
    \E o \in Orientations, r \in Radii, w \in BuildSizes, h \in BuildSizes :
        BuildBegin(TRIANGULAR, o, r, w, h)

build_trapezoid ==
    \E o \in Orientations, r \in Radii, w \in BuildSizes, h \in BuildSizes :
        BuildBegin(TRAPEZOID, o, r, w, h)

\* Variant: the exception of check_size is swallowed.
BuildCheckSize_Swallow ==
    /\ bpc = "check_size"
    /\ StrategyCheckSize(bshape, grid_data.width, grid_data.height)
    /\ bpc' = "create_grid"
    /\ bresult' = "none"
    /\ UNCHANGED <<prev, bshape, grid_data, grid, stor, pending, control,
                   kept, enumerated, inserts>>

\* self.check_size(strategy, width, height): an exception leaves build_*.
BuildCheckSize ==
    /\ bpc = "check_size"
    /\ StrategyCheckSize(bshape, grid_data.width, grid_data.height)
    /\ bpc' = IF pc' = "raised" THEN "idle" ELSE "create_grid"
    /\ bresult' = IF pc' = "raised" THEN "raised" ELSE "none"
    /\ UNCHANGED <<prev, bshape, grid_data, grid, stor, pending, control,
                   kept, enumerated, inserts>>

\* Variant: the storage is one shared object, not a new one per build.
BuildCreateGrid_SharedStorage ==
    /\ bpc = "create_grid"
    /\ grid' = HexagonGridImpl(grid_data, 1)
    /\ stor' = stor
    /\ bpc' = "fetch"
    /\ UNCHANGED svars
    /\ UNCHANGED <<prev, bshape, bresult, grid_data, pending, control, kept,
                   enumerated, inserts>>

\* grid = HexagonGridImpl(grid_data, DefaultHexagonDataStorage())
BuildCreateGrid ==
    /\ bpc = "create_grid"
    /\ grid' = HexagonGridImpl(grid_data, FreshStorage)
    /\ stor' = [stor EXCEPT ![FreshStorage] = EmptyStorage]
    /\ bpc' = "fetch"
    /\ UNCHANGED svars
    /\ UNCHANGED <<prev, bshape, bresult, grid_data, pending, control, kept,
                   enumerated, inserts>>

\* strategy.fetch_grid_coords(width, height, orientation) is called.
BuildFetch ==
    /\ bpc = "fetch"
    /\ StrategyFetch(bshape, grid_data.width, grid_data.height,
                     grid_data.orientation)
    /\ bpc' = "fetching"
    /\ UNCHANGED <<prev, bshape, bresult, grid_data, grid, stor, pending,
                   control, kept, enumerated, inserts>>

\* populate_storage is entered with the list fetch_grid_coords returned.
BuildPopulate ==
    /\ bpc = "fetching"
    /\ pc = "returned"
    /\ pending' = coords
    /\ enumerated' = coords
    /\ bpc' = "populate"
    /\ UNCHANGED svars
    /\ UNCHANGED <<prev, bshape, bresult, grid_data, grid, stor, control,
                   kept, inserts>>

\* Variant: the hexagon is stored but not appended to grid.hexagons.
BuildPopulateStep_NoAppend ==
    /\ bpc = "populate"
    /\ pending # <<>>
    /\ LET coord == Head(pending)
           hexagon == HexagonImpl(grid_data, coord)
       IN  /\ stor' = [stor EXCEPT ![grid.storage] =
                          add_coord_with_data(stor[grid.storage], coord, hexagon)]
           /\ grid' = grid
           /\ inserts' = Append(inserts, coord)
    /\ pending' = Tail(pending)
    /\ UNCHANGED svars
    /\ UNCHANGED <<prev, bpc, bshape, bresult, grid_data, control, kept,
                   enumerated>>

\* One iteration of the loop of populate_storage.
BuildPopulateStep ==
    /\ bpc = "populate"
    /\ pending # <<>>
    /\ LET coord == Head(pending)
           hexagon == HexagonImpl(grid_data, coord)
       IN  /\ stor' = [stor EXCEPT ![grid.storage] =
                          add_coord_with_data(stor[grid.storage], coord, hexagon)]
           /\ grid' = [grid EXCEPT !.hexagons = Append(grid.hexagons, hexagon)]
           /\ inserts' = Append(inserts, coord)
    /\ pending' = Tail(pending)
    /\ UNCHANGED svars
    /\ UNCHANGED <<prev, bpc, bshape, bresult, grid_data, control, kept,
                   enumerated>>

\* return GridControl(grid, HexagonGridCalculator(grid), grid_data)
BuildReturn ==
    /\ bpc = "populate"
    /\ pending = <<>>
    /\ control' = GridControl(grid, HexagonGridCalculator(grid), grid_data)
    /\ bresult' = "returned"
    /\ bpc' = "idle"
    /\ UNCHANGED svars
    /\ UNCHANGED <<prev, bshape, grid_data, grid, stor, pending, kept,
                   enumerated, inserts>>

\* The caller holds on to the GridControl the last build returned.
Keep ==
    /\ bpc = "idle"
    /\ bresult = "returned"
    /\ kept # [control |-> control, enumerated |-> enumerated]
    /\ kept' = [control |-> control, enumerated |-> enumerated]
    /\ UNCHANGED svars
    /\ UNCHANGED <<prev, bpc, bshape, bresult, grid_data, grid, stor, pending,
                   control, enumerated, inserts>>

BuildNext ==
    \/ build_rectangle
    \/ build_hexagon
    \/ build_triangle
    \/ build_trapezoid
    \/ BuildCheckSize
    \/ BuildCreateGrid
    \/ BuildFetch
    \/ HexagonFetchRow
    \/ HexagonFetchReturn
    \/ BuildPopulate
    \/ BuildPopulateStep
    \/ BuildReturn
    \/ Keep

SpecBuild == Init /\ [][BuildNext]_vars

\* ================================================================ claims
FetchDone == pc = "returned" /\ call.op = "fetch"
ValidCall == check_size(call.shape, call.width, call.height)
Elems(seq) == {seq[i] : i \in 1..Len(seq)}

\* The acceptance rule of each shape as the specification words it.
SizeRule(shape, width, height) ==
    CASE shape \in {RECTANGULAR, TRAPEZOID} -> width > 0 /\ height > 0
      [] shape = TRIANGULAR -> width > 0 /\ height > 0 /\ width = height
      [] shape = HEXAGONAL ->
             width > 0 /\ height > 0 /\ width = height /\ height % 2 = 1

\* C1: check_size raises GridLayoutException exactly when the shape's rule
\* is violated, for every integer width and height; (0,5) and (5,0) fail for
\* every shape, (3,4) fails for Triangle and Hexagon, (4,4) fails for
\* Hexagon, (5,5) succeeds for Triangle and Hexagon.
C1_CheckSizeRule ==
    call.op = "check_size" =>
        /\ pc \in {"returned", "raised"}
        /\ (pc = "raised") <=> ~SizeRule(call.shape, call.width, call.height)
        /\ (call.width = 0 /\ call.height = 5) => pc = "raised"
        /\ (call.width = 5 /\ call.height = 0) => pc = "raised"
        /\ (call.width = 3 /\ call.height = 4
              /\ call.shape \in {TRIANGULAR, HEXAGONAL}) => pc = "raised"
        /\ (call.width = 4 /\ call.height = 4 /\ call.shape = HEXAGONAL)
              => pc = "raised"
        /\ (call.width = 5 /\ call.height = 5
              /\ call.shape \in {TRIANGULAR, HEXAGONAL}) => pc = "returned"

C1_Witness ==
    /\ call.op = "check_size" /\ call.shape = HEXAGONAL
    /\ call.width = 4 /\ call.height = 4
    /\ pc = "raised"

ExpectedCount(shape, width, height) ==
    CASE shape \in {RECTANGULAR, TRAPEZOID} -> width * height
      [] shape = TRIANGULAR -> (height * (height + 1)) \div 2
      [] shape = HEXAGONAL ->
             LET r == height \div 2 IN 3 * r * r + 3 * r + 1

\* C2: for every accepted (width, height) and both orientations the returned
\* sequence has width*height elements (Rectangle, Trapezoid),
\* height*(height+1)/2 (Triangle), 3*r*r + 3*r + 1 with r = floor(height/2)
\* (Hexagon).
C2_Count ==
    (FetchDone /\ ValidCall) =>
        Len(coords) = ExpectedCount(call.shape, call.width, call.height)

C2_Witness ==
    /\ FetchDone /\ call.shape = TRIANGULAR
    /\ call.width = 4 /\ call.height = 4
    /\ Len(coords) = 10

\* C3: for every accepted (width, height) and both orientations no two
\* positions of the returned sequence hold the same (gridX, gridZ).
C3_NoDuplicates ==
    (FetchDone /\ ValidCall) =>
        \A i \in 1..Len(coords) : \A j \in 1..Len(coords) :
            i # j => coords[i] # coords[j]

C3_Witness ==
    /\ FetchDone /\ call.shape = HEXAGONAL /\ call.orientation = FLAT_TOP
    /\ call.width = 5 /\ call.height = 5
    /\ Cardinality(Elems(coords)) = 19

\* Hex distance between two cube coordinates.
HexDistance(a, b) ==
    LET dx == a.gridX - b.gridX
        dz == a.gridZ - b.gridZ
        dy == 0 - dx - dz
    IN  Max(Abs(dx), Max(Abs(dy), Abs(dz)))

\* Every cube coordinate within distance r of c.
Ball(c, r) ==
    {p \in {CubeCoordinate(c.gridX + dx, c.gridZ + dz) :
                dx \in (0 - r)..r, dz \in (0 - r)..r} : HexDistance(p, c) <= r}

\* C8: for every odd size s > 0 and both orientations the set of coordinates
\* the hexagon strategy returns is exactly the set of cube coordinates within
\* hex distance floor(s/2) of some centre.
C8_RegularHexagon ==
    (FetchDone /\ call.shape = HEXAGONAL /\ ValidCall) =>
        \E c \in Elems(coords) : Elems(coords) = Ball(c, call.height \div 2)

C8_Witness ==
    /\ FetchDone /\ call.shape = HEXAGONAL /\ call.orientation = POINTY_TOP
    /\ call.width = 5 /\ call.height = 5
    /\ Elems(coords) = Ball(CubeCoordinate(1, 2), 2)

\* Length the claim gives row `row` of a hexagon of radius r.
RowLen(r, row) == 2 * r + 1 - Abs(r - row)

RECURSIVE RowOffset(_, _)
RowOffset(r, row) ==
    IF row <= 0 THEN 0 ELSE RowOffset(r, row - 1) + RowLen(r, row - 1)

\* The part of a hexagon enumeration that is row `row` if rows have RowLen.
RowSegment(seq, r, row) ==
    SubSeq(seq, RowOffset(r, row) + 1, RowOffset(r, row) + RowLen(r, row))

CountWithZ(seq, z) == Cardinality({i \in 1..Len(seq) : seq[i].gridZ = z})

\* C9: for every odd size s > 0 and both orientations row y of the hexagon
\* enumeration is 2*hexRadius + 1 - |hexRadius - y| consecutive columns;
\* rows y and s-1-y are equally long, the middle row has s columns and every
\* other row is strictly shorter.
C9_RowLengths ==
    (FetchDone /\ call.shape = HEXAGONAL /\ ValidCall) =>
        LET s == call.height
            r == s \div 2
            seg(row) == RowSegment(coords, r, row)
            zOf(row) == seg(row)[1].gridZ
        IN  /\ Len(coords) = RowOffset(r, s)
            /\ \A row \in 0..(s - 1) :
                  /\ Len(seg(row)) = RowLen(r, row)
                  /\ \A i \in 1..(Len(seg(row)) - 1) :
                        /\ seg(row)[i + 1].gridX = seg(row)[i].gridX + 1
                        /\ seg(row)[i + 1].gridZ = seg(row)[i].gridZ
                  /\ CountWithZ(coords, zOf(row)) = RowLen(r, row)
                  /\ CountWithZ(coords, zOf(row))
                        = CountWithZ(coords, zOf(s - 1 - row))
                  /\ row # r => CountWithZ(coords, zOf(row)) < s
            /\ CountWithZ(coords, zOf(r)) = s

C9_Witness ==
    /\ FetchDone /\ call.shape = HEXAGONAL
    /\ call.width = 5 /\ call.height = 5
    /\ CountWithZ(coords, RowSegment(coords, 2, 2)[1].gridZ) = 5
    /\ CountWithZ(coords, RowSegment(coords, 2, 0)[1].gridZ) = 3
    /\ CountWithZ(coords, RowSegment(coords, 2, 4)[1].gridZ) = 3

\* The columns lo .. hi inclusive.
Columns(lo, hi) == Range(lo, hi + 1)
Xs(seq) == [i \in 1..Len(seq) |-> seq[i].gridX]
Emitted == SubSeq(coords', Len(coords) + 1, Len(coords'))
RowStep == pc = "hex_loop" /\ pc' = "hex_loop" /\ y' = y + 1
InitialStartX(grid_size, orientation) ==
    IF orientation = FLAT_TOP THEN grid_size \div 2
    ELSE RoundQuarter(grid_size)

\* C10 as stated: every row emits the columns max(startX, startX - hexRadius)
\* through max(startX, startX - hexRadius) + 2*hexRadius - distFromMid, both
\* startX being the running value of that row.
C10_RunningSpanStep ==
    RowStep =>
        LET r == call.height \div 2
            lo == Max(start_x, start_x - r)
        IN  /\ start_x = InitialStartX(call.height, call.orientation) - y
            /\ Xs(Emitted) = Columns(lo, lo + 2 * r - Abs(r - y))
C10_RunningSpan == [][C10_RunningSpanStep]_vars

\* C10, amended: every row emits the columns max(startX, minX) through
\* max(startX, minX) + 2*hexRadius - distFromMid, where startX is the running
\* value of that row and minX is the initial startX minus hexRadius, fixed
\* before the first row.
C10_FixedMinSpanStep ==
    RowStep =>
        LET r == call.height \div 2
            fixed_min == InitialStartX(call.height, call.orientation) - r
            lo == Max(start_x, fixed_min)
        IN  /\ start_x = InitialStartX(call.height, call.orientation) - y
            /\ Xs(Emitted) = Columns(lo, lo + 2 * r - Abs(r - y))
C10_FixedMinSpan == [][C10_FixedMinSpanStep]_vars

C10_Witness ==
    /\ pc = "hex_loop" /\ ValidCall /\ call.height = 5
    /\ y = 5
    /\ start_x < min_x
    /\ Len(coords) = 19

\* C6: two fetch_grid_coords calls with identical arguments return identical
\* sequences, whatever other strategy calls were made in between.
C6_Restartable ==
    (FetchDone /\ prev # None /\ prev.call = call) => coords = prev.coords

C6_Witness ==
    /\ FetchDone /\ prev # None /\ prev.call = call /\ prev.again
    /\ call.shape = HEXAGONAL /\ call.height = 3
    /\ Len(coords) = 7

BuildValid == check_size(bshape, grid_data.width, grid_data.height)
InBuild == bpc # "idle" \/ bresult # "none"
Coords(hexagons) == [i \in 1..Len(hexagons) |-> hexagons[i].coord]

\* C4: in every build_* method check_size runs before the storage is created
\* and before fetch_grid_coords is called; when it raises, the exception
\* reaches the caller, fetch_grid_coords is never called, nothing is inserted
\* or appended and no GridControl is returned.
C4_FailFast ==
    InBuild =>
        /\ bpc = "check_size" =>
              grid = None /\ call.op = "none" /\ inserts = <<>>
        /\ (grid # None \/ call.op = "fetch" \/ inserts # <<>>
              \/ control # None) => BuildValid
        /\ (bpc = "idle" /\ ~BuildValid) =>
              /\ bresult = "raised"
              /\ pc = "raised"
              /\ call.op = "check_size"
              /\ grid = None
              /\ inserts = <<>>
              /\ control = None
              /\ \A id \in StorIds :
                    stor[id] # EmptyStorage =>
                        kept # None /\ kept.control.hex_grid.storage = id

C4_Witness ==
    /\ bpc = "idle" /\ bresult = "raised"
    /\ bshape = HEXAGONAL /\ grid_data.width = 2 /\ grid_data.height = 2
    /\ kept # None
    /\ control = None

\* C5: in a build whose sizes pass check_size, populate_storage inserts once
\* per coordinate of the enumerated sequence, never under a key already
\* inserted in that build; when the build returns the storage's keys are the
\* enumerated coordinates and grid.hexagons has the length and the coordinate
\* order of the enumerated sequence.
C5_PopulateOnce ==
    /\ bpc = "populate" => inserts \o pending = enumerated
    /\ \A i \in 1..Len(inserts) : \A j \in 1..Len(inserts) :
          i # j => inserts[i] # inserts[j]
    /\ (bpc = "idle" /\ bresult = "returned") =>
          /\ inserts = enumerated
          /\ call.op = "fetch" /\ enumerated = coords
          /\ DOMAIN stor[control.hex_grid.storage] = Elems(enumerated)
          /\ Len(control.hex_grid.hexagons) = Len(enumerated)
          /\ Coords(control.hex_grid.hexagons) = enumerated

C5_Witness ==
    /\ bpc = "idle" /\ bresult = "returned"
    /\ bshape = HEXAGONAL /\ grid_data.height = 3
    /\ Len(inserts) = 7
    /\ Cardinality(DOMAIN stor[control.hex_grid.storage]) = 7

\* The grid behind a GridControl holds exactly the coordinates `seq`, each
\* under its own key and with the grid's own metadata.
GridHolds(gc, seq) ==
    /\ DOMAIN stor[gc.hex_grid.storage] = Elems(seq)
    /\ \A k \in Elems(seq) :
          stor[gc.hex_grid.storage][k] = HexagonImpl(gc.grid_data, k)
    /\ gc.hex_grid.hexagons = [i \in 1..Len(seq) |->
                                  HexagonImpl(gc.grid_data, seq[i])]
    /\ gc.hex_grid.grid_data = gc.grid_data

\* C7: every build produces an independent grid: a returned grid holds
\* exactly the coordinates enumerated for its own call, and it keeps holding
\* exactly those throughout every later build, successful or failing.
C7_IndependentGrids ==
    /\ kept # None => GridHolds(kept.control, kept.enumerated)
    /\ control # None => GridHolds(control, enumerated)

C7_Witness ==
    /\ kept # None /\ control # None
    /\ bpc = "idle" /\ bresult = "returned"
    /\ kept.control.hex_grid.storage # control.hex_grid.storage
    /\ kept.control.grid_data.width = 3 /\ kept.control.grid_data.height = 3
    /\ grid_data.width = 3 /\ grid_data.height = 3
    /\ Len(kept.enumerated) = 7
    /\ Len(enumerated) = 6

====
